---- MODULE Spec2Model ----
(***************************************************************************)
(* The API-layer entry points of framework/dispatch.cpp:                   *)
(*   xrCreateApiLayerInstance, appendAvailableExtensions,                  *)
(*   xrEnumerateInstanceExtensionProperties, xrEnumerateApiLayerProperties *)
(*   and xrGetInstanceProcAddr.                                            *)
(* Spec      : the instance-creation handshake, one step per block of      *)
(*             xrCreateApiLayerInstance and per downstream call.           *)
(* SpecQuery : the two enumeration entry points and the router, each a     *)
(*             whole call.                                                 *)
(***************************************************************************)
EXTENDS Integers, Sequences, FiniteSets, TLC

\* ------------------------------------------------------------------ bounds
\* Next layers between this layer and the runtime.
MaxLayers == 1
\* Length of the caller's enabledExtensionNames.
MaxRequested == 2
\* Instances the next link may create over a run.
MaxInstances == 1
\* Length of advertisedExtensions (SpecQuery).
MaxAdvertised == 2

\* --------------------------------------------------------------- XrResult
XR_SUCCESS == 0
XR_TIMEOUT_EXPIRED == 1
XR_ERROR_VALIDATION_FAILURE == -1
XR_ERROR_RUNTIME_FAILURE == -2
XR_ERROR_API_VERSION_UNSUPPORTED == -4
XR_ERROR_INITIALIZATION_FAILED == -6
XR_ERROR_FUNCTION_UNSUPPORTED == -7
XR_ERROR_EXTENSION_NOT_PRESENT == -9
XR_ERROR_SIZE_INSUFFICIENT == -11

XR_SUCCEEDED(r) == r >= 0
XR_FAILED(r) == r < 0

\* Handles and pointers: 0 is XR_NULL_HANDLE / nullptr.
XR_NULL_HANDLE == 0
\* A null const char*.
NullStr == "nullptr"

LAYER_NAME == "XR_APILAYER_this"
OtherLayer(k) == IF k = 1 THEN "XR_APILAYER_a" ELSE IF k = 2 THEN "XR_APILAYER_b" ELSE "XR_APILAYER_c"

CREATE_INFO_TYPE == "XR_LOADER_INTERFACE_STRUCT_API_LAYER_CREATE_INFO"
CREATE_INFO_VERSION == "XR_API_LAYER_CREATE_INFO_STRUCT_VERSION"
CREATE_INFO_SIZE == "sizeof(XrApiLayerCreateInfo)"
NEXT_INFO_TYPE == "XR_LOADER_INTERFACE_STRUCT_API_LAYER_NEXT_INFO"
NEXT_INFO_VERSION == "XR_API_LAYER_NEXT_INFO_STRUCT_VERSION"
NEXT_INFO_SIZE == "sizeof(XrApiLayerNextInfo)"
Mismatch == "mismatch"

\* ------------------------------------------------------------ small sets
Names == {"X", "Y"}
Versions == {1, 2}
Entry == Names \X Versions
SeqsUpTo(S, n) == UNION {[1..k -> S] : k \in 0..n}
Range(s) == {s[i] : i \in 1..Len(s)}

\* A value-initialised XrExtensionProperties{XR_TYPE_EXTENSION_PROPERTIES}:
\* empty extensionName, extensionVersion 0.
DefaultEntry == <<"", 0>>

VARIABLES
    \* the registry of layer.h, fixed at process start
    implicitExtensions, blockedExtensions, advertisedExtensions,
    \* the process-wide layer object behind GetInstance()
    layerState,
    \* xrCreateApiLayerInstance: position and arguments
    pc, apiLayerInfo, instanceCreateInfo, instance,
    \* xrCreateApiLayerInstance: locals
    info, availableExtensions, filteredImplicitExtensions,
    chainInstanceCreateInfo, chainApiLayerInfo, result,
    \* what this call did to the outside: the calls of the handshake proper, the
    \* links probed, the log lines, and the last probe with its calls
    calls, probed, log, lastProbe,
    \* the world around this call: the names the links reported, the instances
    \* created and destroyed below, the layer object at entry, and what this
    \* layer's own xrCreateInstance did
    reported, created, destroyed, stateBefore, inits,
    \* the last call of an enumeration entry point or of the router
    query

vars == <<implicitExtensions, blockedExtensions, advertisedExtensions, layerState,
          pc, apiLayerInfo, instanceCreateInfo, instance,
          info, availableExtensions, filteredImplicitExtensions,
          chainInstanceCreateInfo, chainApiLayerInfo, result,
          calls, probed, log, lastProbe, reported, created, destroyed, stateBefore, inits,
          query>>

registry == <<implicitExtensions, blockedExtensions, advertisedExtensions>>
locals == <<info, availableExtensions, filteredImplicitExtensions,
            chainInstanceCreateInfo, chainApiLayerInfo, result>>

\* ------------------------------------------------- the handshake envelope
\* XrApiLayerNextInfo number k of the list: node 1 is this layer's own, node
\* k > 1 the (k-1)-th layer below it.  Accessor k is the proc-address accessor
\* and the create entry point held by node k.
Node(k) ==
    [structType |-> NEXT_INFO_TYPE, structVersion |-> NEXT_INFO_VERSION,
     structSize |-> NEXT_INFO_SIZE,
     layerName |-> IF k = 1 THEN LAYER_NAME ELSE OtherLayer(k - 1),
     nextGetInstanceProcAddr |-> k, nextCreateApiLayerInstance |-> k]

\* A well-formed XrApiLayerCreateInfo over n nodes; nextInfo = <<>> is a null
\* nextInfo pointer.
ValidInfo(n) ==
    [null |-> FALSE, structType |-> CREATE_INFO_TYPE,
     structVersion |-> CREATE_INFO_VERSION, structSize |-> CREATE_INFO_SIZE,
     nextInfo |-> [k \in 1..n |-> Node(k)]]

\* The same with exactly one field wrong.
BrokenInfos(v) ==
    { [v EXCEPT !.null = TRUE],
      [v EXCEPT !.structType = Mismatch],
      [v EXCEPT !.structVersion = Mismatch],
      [v EXCEPT !.structSize = Mismatch],
      [v EXCEPT !.nextInfo = <<>>],
      [v EXCEPT !.nextInfo[1].structType = Mismatch],
      [v EXCEPT !.nextInfo[1].structVersion = Mismatch],
      [v EXCEPT !.nextInfo[1].structSize = Mismatch],
      [v EXCEPT !.nextInfo[1].layerName = NullStr],
      [v EXCEPT !.nextInfo[1].layerName = OtherLayer(1)],
      [v EXCEPT !.nextInfo[1].nextGetInstanceProcAddr = 0],
      [v EXCEPT !.nextInfo[1].nextCreateApiLayerInstance = 0] }

Envelopes ==
    {ValidInfo(n) : n \in 1..(MaxLayers + 1)}
        \cup UNION {BrokenInfos(ValidInfo(n)) : n \in 1..(MaxLayers + 1)}

NoInfo == [ValidInfo(1) EXCEPT !.null = TRUE]

\* A variant of the condition below that leaves out the comparison of the
\* first link's layerName with LAYER_NAME.
ValidationFailsNoName(a) ==
    \/ a.null
    \/ a.structType # CREATE_INFO_TYPE
    \/ a.structVersion # CREATE_INFO_VERSION
    \/ a.structSize # CREATE_INFO_SIZE
    \/ a.nextInfo = <<>>
    \/ a.nextInfo[1].structType # NEXT_INFO_TYPE
    \/ a.nextInfo[1].structVersion # NEXT_INFO_VERSION
    \/ a.nextInfo[1].structSize # NEXT_INFO_SIZE
    \/ a.nextInfo[1].layerName = NullStr
    \/ a.nextInfo[1].nextGetInstanceProcAddr = 0
    \/ a.nextInfo[1].nextCreateApiLayerInstance = 0

\* The condition of the if at the head of xrCreateApiLayerInstance.
ValidationFails(a) ==
    \/ a.null
    \/ a.structType # CREATE_INFO_TYPE
    \/ a.structVersion # CREATE_INFO_VERSION
    \/ a.structSize # CREATE_INFO_SIZE
    \/ a.nextInfo = <<>>
    \/ a.nextInfo[1].structType # NEXT_INFO_TYPE
    \/ a.nextInfo[1].structVersion # NEXT_INFO_VERSION
    \/ a.nextInfo[1].structSize # NEXT_INFO_SIZE
    \/ a.nextInfo[1].layerName = NullStr
    \/ a.nextInfo[1].layerName # LAYER_NAME
    \/ a.nextInfo[1].nextGetInstanceProcAddr = 0
    \/ a.nextInfo[1].nextCreateApiLayerInstance = 0

\* ------------------------------------------------------------- log lines
ErrorLog(msg, arg) == <<"error", msg, arg>>
Log(msg, arg) == <<"info", msg, arg>>
ErrorLines(l) == SelectSeq(l, LAMBDA e : e[1] = "error")

\* The "Using layer" lines of the dump loop, one per node of the list.
DumpLayers(nodes) == [k \in 1..Len(nodes) |-> Log("Using layer", nodes[k].layerName)]

\* ------------------------------------------------------ the layer object
\* Before any SetGetInstanceProcAddr / SetGrantedExtensions.
Unattached ==
    [getInstanceProcAddr |-> 0, instance |-> XR_NULL_HANDLE, grantedExtensions |-> <<>>]

NoCreateInfo == [applicationInfo |-> "unset", enabledExtensionCount |-> 0, enabledExtensionNames |-> <<>>]
NoChainInfo == NoInfo
EmptyMap == [n \in {} |-> 0]
NoProbe == [layerName |-> NullStr, accessor |-> 0, calls |-> <<>>, entries |-> <<>>]
NoQuery == [fn |-> "none"]

\* xr::ToCString
ToCString(r) ==
    CASE r = XR_SUCCESS -> "XR_SUCCESS"
      [] r = XR_TIMEOUT_EXPIRED -> "XR_TIMEOUT_EXPIRED"
      [] r = XR_ERROR_VALIDATION_FAILURE -> "XR_ERROR_VALIDATION_FAILURE"
      [] r = XR_ERROR_RUNTIME_FAILURE -> "XR_ERROR_RUNTIME_FAILURE"
      [] r = XR_ERROR_API_VERSION_UNSUPPORTED -> "XR_ERROR_API_VERSION_UNSUPPORTED"
      [] r = XR_ERROR_INITIALIZATION_FAILED -> "XR_ERROR_INITIALIZATION_FAILED"
      [] r = XR_ERROR_FUNCTION_UNSUPPORTED -> "XR_ERROR_FUNCTION_UNSUPPORTED"
      [] r = XR_ERROR_EXTENSION_NOT_PRESENT -> "XR_ERROR_EXTENSION_NOT_PRESENT"
      [] r = XR_ERROR_SIZE_INSUFFICIENT -> "XR_ERROR_SIZE_INSUFFICIENT"
      [] OTHER -> "XR_UNKNOWN"

\* One call made through a downstream accessor, with the status it returned.
Call(fn, via, args, ret) == [fn |-> fn, via |-> via, args |-> args, ret |-> ret]

\* ------------------------------------------- appendAvailableExtensions
\* What one link answers to the three calls of a probe: the status of the
\* proc-address lookup, the status and count of the capacity-0 call, the
\* status of the fill call and the entries it writes.  A failing call writes
\* nothing.
Tables ==
    SeqsUpTo(Entry, 1)
        \cup { << <<"X", 1>>, <<"Y", 1>> >>, << <<"Y", 2>>, <<"X", 2>> >>,
               << <<"X", 2>>, <<"X", 1>> >> }

Answer(resolve, count, extCount, fill, buffer) ==
    [resolve |-> resolve, count |-> count, extCount |-> extCount,
     fill |-> fill, buffer |-> buffer]

Answers ==
    {Answer(XR_ERROR_FUNCTION_UNSUPPORTED, XR_SUCCESS, 0, XR_SUCCESS, <<>>)}
        \cup {Answer(XR_SUCCESS, XR_ERROR_RUNTIME_FAILURE, 0, XR_SUCCESS, <<>>)}
        \cup {Answer(XR_SUCCESS, XR_SUCCESS, n, XR_ERROR_RUNTIME_FAILURE, <<>>) : n \in 1..2}
        \cup {Answer(XR_SUCCESS, XR_SUCCESS, Len(t), XR_SUCCESS, t) : t \in Tables}

\* stillOK after the lookup, after the count call, after the fill call.
StillOK1(ans) == ans.resolve
StillOK2(ans) == IF XR_SUCCEEDED(StillOK1(ans)) THEN ans.count ELSE StillOK1(ans)
StillOK3(ans) == IF XR_SUCCEEDED(StillOK2(ans)) THEN ans.fill ELSE StillOK2(ans)

\* extCount after the count call.
ExtCount(ans) ==
    IF XR_SUCCEEDED(StillOK1(ans)) /\ XR_SUCCEEDED(ans.count) THEN ans.extCount ELSE 0

\* The vector `extensions` when the loop starts: extCount value-initialised
\* entries, overwritten by the fill call when it was made and succeeded.
Extensions(ans) ==
    [i \in 1..ExtCount(ans) |->
        IF XR_SUCCEEDED(StillOK2(ans)) /\ XR_SUCCEEDED(ans.fill) /\ i <= Len(ans.buffer)
        THEN ans.buffer[i]
        ELSE DefaultEntry]

\* unordered_map::emplace: inserts only when the key is absent.
Emplace(m, e) == IF e[1] \in DOMAIN m THEN m ELSE m @@ (e[1] :> e[2])

RECURSIVE EmplaceAll(_, _)
EmplaceAll(m, es) ==
    IF es = <<>> THEN m ELSE EmplaceAll(Emplace(m, Head(es)), Tail(es))

appendAvailableExtensions(name, getInstanceProcAddr, available, ans) ==
    EmplaceAll(available, Extensions(ans))

\* The downstream calls of one probe, in order.
ProbeCalls(name, getInstanceProcAddr, ans) ==
    <<Call("xrGetInstanceProcAddr", getInstanceProcAddr,
           <<XR_NULL_HANDLE, "xrEnumerateInstanceExtensionProperties">>, ans.resolve)>>
        \o (IF XR_SUCCEEDED(StillOK1(ans))
            THEN <<Call("xrEnumerateInstanceExtensionProperties", getInstanceProcAddr,
                        <<name, 0>>, ans.count)>>
            ELSE <<>>)
        \o (IF XR_SUCCEEDED(StillOK2(ans))
            THEN <<Call("xrEnumerateInstanceExtensionProperties", getInstanceProcAddr,
                        <<name, ExtCount(ans)>>, ans.fill)>>
            ELSE <<>>)

\* The names a link reported: those of the entries it wrote in a probe whose
\* three calls all succeeded.
ReportedNames(ans) ==
    IF XR_SUCCEEDED(StillOK3(ans)) THEN {ans.buffer[i][1] : i \in 1..Len(ans.buffer)} ELSE {}

\* ------------------------------------------------ xrCreateApiLayerInstance
\* The loop over implicitExtensions: the names pushed so far and, when a name
\* is absent from availableExtensions, that name.
RECURSIVE NegotiateLoopSkipMissing(_, _, _, _)
NegotiateLoopSkipMissing(implicit, available, i, filtered) ==
    IF i > Len(implicit)
    THEN [ok |-> TRUE, filtered |-> filtered, missing |-> ""]
    ELSE NegotiateLoopSkipMissing(implicit, available, i + 1,
             IF implicit[i] \in DOMAIN available
             THEN Append(filtered, implicit[i]) ELSE filtered)

\* Goes through the whole list and names the last missing name.
NegotiateLoopLastMissing(implicit, available, i, filtered) ==
    LET missing == {k \in 1..Len(implicit) : implicit[k] \notin DOMAIN available}
        last == CHOOSE k \in missing : \A m \in missing : m <= k
    IN IF missing = {}
       THEN [ok |-> TRUE, filtered |-> implicit, missing |-> ""]
       ELSE [ok |-> FALSE,
             filtered |-> SelectSeq(implicit, LAMBDA n : n \in DOMAIN available),
             missing |-> implicit[last]]

RECURSIVE NegotiateLoop(_, _, _, _)
NegotiateLoop(implicit, available, i, filtered) ==
    IF i > Len(implicit)
    THEN [ok |-> TRUE, filtered |-> filtered, missing |-> ""]
    ELSE IF implicit[i] \in DOMAIN available
         THEN NegotiateLoop(implicit, available, i + 1, Append(filtered, implicit[i]))
         ELSE [ok |-> FALSE, filtered |-> filtered, missing |-> implicit[i]]

\* std::find(blockedExtensions.cbegin(), blockedExtensions.cend(), ext) != cend()
IsBlockedNever(blocked, ext) == FALSE

IsBlocked(blocked, ext) == \E j \in 1..Len(blocked) : blocked[j] = ext

\* The loop keeping a name only the first time it is met.
RECURSIVE FilterLoopNoDuplicates(_, _, _, _, _)
FilterLoopNoDuplicates(requested, blocked, i, kept, lines) ==
    IF i > Len(requested)
    THEN [names |-> kept, lines |-> lines]
    ELSE IF ~IsBlocked(blocked, requested[i]) /\ requested[i] \notin Range(kept)
         THEN FilterLoopNoDuplicates(requested, blocked, i + 1, Append(kept, requested[i]),
                         Append(lines, Log("Requested extension", requested[i])))
         ELSE FilterLoopNoDuplicates(requested, blocked, i + 1, kept,
                         Append(lines, Log("Blocking extension", requested[i])))

\* The loop over the caller's enabledExtensionNames: the names kept and the
\* log lines written.
RECURSIVE FilterLoop(_, _, _, _, _)
FilterLoop(requested, blocked, i, kept, lines) ==
    IF i > Len(requested)
    THEN [names |-> kept, lines |-> lines]
    ELSE IF ~IsBlocked(blocked, requested[i])
         THEN FilterLoop(requested, blocked, i + 1, Append(kept, requested[i]),
                         Append(lines, Log("Requested extension", requested[i])))
         ELSE FilterLoop(requested, blocked, i + 1, kept,
                         Append(lines, Log("Blocking extension", requested[i])))

\* Appends an implicit name only when the list does not hold it yet.
RECURSIVE AppendNew(_, _)
AppendNew(kept, more) ==
    IF more = <<>> THEN kept
    ELSE AppendNew(IF Head(more) \in Range(kept) THEN kept ELSE Append(kept, Head(more)),
                   Tail(more))

NewEnabledExtensionNamesDeduped(requested, blocked, filteredImplicit) ==
    AppendNew(FilterLoop(requested, blocked, 1, <<>>, <<>>).names, filteredImplicit)

\* The list without the second loop: the negotiated names are not appended.
NewEnabledExtensionNamesNoImplicit(requested, blocked, filteredImplicit) ==
    FilterLoop(requested, blocked, 1, <<>>, <<>>).names

\* newEnabledExtensionNames after both loops.
NewEnabledExtensionNames(requested, blocked, filteredImplicit) ==
    FilterLoop(requested, blocked, 1, <<>>, <<>>).names \o filteredImplicit

FilterLines(requested, blocked, filteredImplicit) ==
    FilterLoop(requested, blocked, 1, <<>>, <<>>).lines
        \o [k \in 1..Len(filteredImplicit) |-> Log("Requesting extension", filteredImplicit[k])]

\* What the caller may pass as instanceCreateInfo.
CreateInfos ==
    {[applicationInfo |-> "app", enabledExtensionCount |-> Len(req),
      enabledExtensionNames |-> req] : req \in SeqsUpTo(Names, MaxRequested)}

\* What the next link's create entry point may return.
NextCreateResults ==
    {XR_SUCCESS, XR_TIMEOUT_EXPIRED, XR_ERROR_API_VERSION_UNSUPPORTED}

\* What this layer's own xrCreateInstance may do: return a status or throw a
\* std::exception.
InitOutcomes ==
    {[throws |-> FALSE, result |-> r] :
        r \in {XR_SUCCESS, XR_ERROR_INITIALIZATION_FAILED}}
        \cup {[throws |-> TRUE, result |-> XR_SUCCESS]}

\* The test on the next link's status that guards the attach block.
CreatedOkAny(r) == TRUE

CreatedOk(r) == r = XR_SUCCESS

\* The status after the try block: the one xrCreateInstance returned, or
\* XR_ERROR_RUNTIME_FAILURE when it threw.
InitResultSwallowed(o) == o.result

InitResult(o) == IF o.throws THEN XR_ERROR_RUNTIME_FAILURE ELSE o.result

\* Entry: the validation of the envelope and the dump of the layer list.
CreateEnter ==
    /\ pc \in {"idle", "returned"}
    /\ created < MaxInstances
    /\ \E a \in Envelopes :
        /\ apiLayerInfo' = a
        /\ IF ValidationFails(a)
           THEN /\ log' = <<ErrorLog("xrCreateApiLayerInstance validation failed", "")>>
                /\ result' = XR_ERROR_INITIALIZATION_FAILED
                /\ pc' = "returned"
           ELSE /\ log' = DumpLayers(a.nextInfo)
                /\ result' = XR_SUCCESS
                /\ pc' = IF implicitExtensions # <<>> THEN "probe" ELSE "filter"
    /\ instanceCreateInfo' = NoCreateInfo
    /\ instance' = XR_NULL_HANDLE
    /\ info' = 1
    /\ availableExtensions' = EmptyMap
    /\ filteredImplicitExtensions' = <<>>
    /\ chainInstanceCreateInfo' = NoCreateInfo
    /\ chainApiLayerInfo' = NoChainInfo
    /\ calls' = <<>>
    /\ probed' = <<>>
    /\ lastProbe' = NoProbe
    /\ reported' = {}
    /\ stateBefore' = layerState
    /\ inits' = <<>>
    /\ destroyed' = {}
    /\ UNCHANGED <<registry, layerState, created, query>>

\* One turn of the while loop: probe the layer after `info` through info's
\* accessor.
ProbeLayer ==
    /\ pc = "probe"
    /\ info < Len(apiLayerInfo.nextInfo)
    /\ \E ans \in Answers :
        LET name == apiLayerInfo.nextInfo[info + 1].layerName
            gipa == apiLayerInfo.nextInfo[info].nextGetInstanceProcAddr
        IN /\ availableExtensions' =
                  appendAvailableExtensions(name, gipa, availableExtensions, ans)
           /\ probed' = Append(probed, <<name, gipa>>)
           /\ lastProbe' = [layerName |-> name, accessor |-> gipa,
                            calls |-> ProbeCalls(name, gipa, ans), entries |-> Extensions(ans)]
           /\ reported' = reported \cup ReportedNames(ans)
    /\ info' = info + 1
    /\ UNCHANGED <<calls, registry, layerState, pc, apiLayerInfo, instanceCreateInfo, instance,
                   filteredImplicitExtensions, chainInstanceCreateInfo, chainApiLayerInfo,
                   result, log, created, destroyed, stateBefore, inits, query>>

\* After the loop: probe the runtime, with a null name, through the last
\* node's accessor.
ProbeRuntime ==
    /\ pc = "probe"
    /\ info = Len(apiLayerInfo.nextInfo)
    /\ \E ans \in Answers :
        LET gipa == apiLayerInfo.nextInfo[info].nextGetInstanceProcAddr
        IN /\ availableExtensions' =
                  appendAvailableExtensions(NullStr, gipa, availableExtensions, ans)
           /\ probed' = Append(probed, <<NullStr, gipa>>)
           /\ lastProbe' = [layerName |-> NullStr, accessor |-> gipa,
                            calls |-> ProbeCalls(NullStr, gipa, ans), entries |-> Extensions(ans)]
           /\ reported' = reported \cup ReportedNames(ans)
    /\ pc' = "negotiate"
    /\ UNCHANGED <<calls, registry, layerState, apiLayerInfo, instanceCreateInfo, instance, info,
                   filteredImplicitExtensions, chainInstanceCreateInfo, chainApiLayerInfo,
                   result, log, created, destroyed, stateBefore, inits, query>>

\* A probe in which a std::exception is thrown after the count call (the
\* allocation of the vector `extensions` for the count the link gave): no
\* handler encloses the probe, in appendAvailableExtensions or in
\* xrCreateApiLayerInstance, so the exception leaves the entry point.  What
\* the caller does with it is outside this file: the run ends there.
ProbeThrows ==
    /\ pc = "probe"
    /\ \E ans \in Answers :
        LET last == info = Len(apiLayerInfo.nextInfo)
            name == IF last THEN NullStr ELSE apiLayerInfo.nextInfo[info + 1].layerName
            gipa == apiLayerInfo.nextInfo[info].nextGetInstanceProcAddr
        IN /\ XR_SUCCEEDED(StillOK2(ans))
           /\ ExtCount(ans) > 0
           /\ probed' = Append(probed, <<name, gipa>>)
           /\ lastProbe' = [layerName |-> name, accessor |-> gipa,
                            calls |-> SubSeq(ProbeCalls(name, gipa, ans), 1, 2),
                            entries |-> <<>>]
    /\ pc' = "escaped"
    /\ UNCHANGED <<calls, registry, layerState, apiLayerInfo, instanceCreateInfo, instance, info,
                   availableExtensions, filteredImplicitExtensions, chainInstanceCreateInfo,
                   chainApiLayerInfo, result, log, reported, created, destroyed, stateBefore,
                   inits, query>>

\* The for loop over implicitExtensions; availableExtensions goes out of
\* scope at the end of the block, and the record of the last probe with it.
Negotiate ==
    /\ pc = "negotiate"
    /\ LET n == NegotiateLoop(implicitExtensions, availableExtensions, 1, <<>>)
       IN /\ filteredImplicitExtensions' = n.filtered
          /\ IF n.ok
             THEN /\ pc' = "filter"
                  /\ UNCHANGED <<log, result>>
             ELSE /\ log' = Append(log, Log("Cannot satisfy implicit extension request", n.missing))
                  /\ result' = XR_ERROR_EXTENSION_NOT_PRESENT
                  /\ pc' = "returned"
    /\ availableExtensions' = EmptyMap
    /\ lastProbe' = NoProbe
    /\ UNCHANGED <<probed, registry, layerState, apiLayerInfo, instanceCreateInfo, instance, info,
                   chainInstanceCreateInfo, chainApiLayerInfo, calls, reported,
                   created, destroyed, stateBefore, inits, query>>

\* The copy of the caller's create info with the rebuilt extension list.
Filter ==
    /\ pc = "filter"
    /\ \E ci \in CreateInfos :
        LET new == NewEnabledExtensionNames(ci.enabledExtensionNames, blockedExtensions,
                                            filteredImplicitExtensions)
        IN /\ instanceCreateInfo' = ci
           /\ chainInstanceCreateInfo' =
                  [ci EXCEPT !.enabledExtensionNames = new, !.enabledExtensionCount = Len(new)]
           /\ log' = log \o FilterLines(ci.enabledExtensionNames, blockedExtensions,
                                        filteredImplicitExtensions)
    /\ pc' = "forward"
    /\ UNCHANGED <<probed, registry, layerState, apiLayerInfo, instance, info, availableExtensions,
                   filteredImplicitExtensions, chainApiLayerInfo, result, calls, lastProbe,
                   reported, created, destroyed, stateBefore, inits, query>>

\* The call made with the caller's own layer info, the chain pointer not
\* advanced.
ForwardSameChain ==
    /\ pc = "forward"
    /\ \E r \in NextCreateResults :
        LET chain == apiLayerInfo
        IN /\ chainApiLayerInfo' = chain
           /\ calls' = Append(calls,
                  Call("nextCreateApiLayerInstance",
                       apiLayerInfo.nextInfo[1].nextCreateApiLayerInstance,
                       <<chainInstanceCreateInfo, chain>>, r))
           /\ result' = r
           /\ IF XR_SUCCEEDED(r)
              THEN /\ created' = created + 1
                   /\ instance' = created + 1
              ELSE UNCHANGED <<created, instance>>
           /\ pc' = IF CreatedOk(r) THEN "attach" ELSE "exit"
    /\ UNCHANGED <<probed, registry, layerState, apiLayerInfo, instanceCreateInfo, info,
                   availableExtensions, filteredImplicitExtensions, chainInstanceCreateInfo,
                   log, lastProbe, reported, destroyed, stateBefore, inits, query>>

\* The call of the next link's create entry point.
Forward ==
    /\ pc = "forward"
    /\ \E r \in NextCreateResults :
        LET chain == [apiLayerInfo EXCEPT !.nextInfo = Tail(apiLayerInfo.nextInfo)]
        IN /\ chainApiLayerInfo' = chain
           /\ calls' = Append(calls,
                  Call("nextCreateApiLayerInstance",
                       apiLayerInfo.nextInfo[1].nextCreateApiLayerInstance,
                       <<chainInstanceCreateInfo, chain>>, r))
           /\ result' = r
           /\ IF XR_SUCCEEDED(r)
              THEN /\ created' = created + 1
                   /\ instance' = created + 1
              ELSE UNCHANGED <<created, instance>>
           /\ pc' = IF CreatedOk(r) THEN "attach" ELSE "exit"
    /\ UNCHANGED <<probed, registry, layerState, apiLayerInfo, instanceCreateInfo, info,
                   availableExtensions, filteredImplicitExtensions, chainInstanceCreateInfo,
                   log, lastProbe, reported, destroyed, stateBefore, inits, query>>

\* The attach storing the accessor of the node the probing loop stopped at.
AttachLastAccessor ==
    /\ pc = "attach"
    /\ layerState' =
           [getInstanceProcAddr |-> apiLayerInfo.nextInfo[info].nextGetInstanceProcAddr,
            instance |-> instance,
            grantedExtensions |-> filteredImplicitExtensions]
    /\ pc' = "init"
    /\ UNCHANGED <<probed, registry, apiLayerInfo, instanceCreateInfo, instance, locals, calls, log,
                   lastProbe, reported, created, destroyed, stateBefore, inits, query>>

\* SetGetInstanceProcAddr and SetGrantedExtensions.
Attach ==
    /\ pc = "attach"
    /\ layerState' =
           [getInstanceProcAddr |-> apiLayerInfo.nextInfo[1].nextGetInstanceProcAddr,
            instance |-> instance,
            grantedExtensions |-> filteredImplicitExtensions]
    /\ pc' = "init"
    /\ UNCHANGED <<probed, registry, apiLayerInfo, instanceCreateInfo, instance, locals, calls, log,
                   lastProbe, reported, created, destroyed, stateBefore, inits, query>>

\* The try block around this layer's own xrCreateInstance.
LocalInit ==
    /\ pc = "init"
    /\ \E o \in InitOutcomes :
        /\ inits' = Append(inits, o)
        /\ result' = InitResult(o)
        /\ log' = IF o.throws THEN Append(log, ErrorLog("xrCreateInstance", "exc.what()"))
                  ELSE log
    /\ pc' = IF XR_FAILED(result') THEN "cleanup" ELSE "exit"
    /\ UNCHANGED <<probed, registry, layerState, apiLayerInfo, instanceCreateInfo, instance, info,
                   availableExtensions, filteredImplicitExtensions, chainInstanceCreateInfo,
                   chainApiLayerInfo, calls, lastProbe, reported, created, destroyed,
                   stateBefore, query>>

\* The cleanup attempt: look xrDestroyInstance up and call it when found.
Cleanup ==
    /\ pc = "cleanup"
    /\ \E r \in {XR_SUCCESS, XR_ERROR_FUNCTION_UNSUPPORTED} :
        LET gipa == apiLayerInfo.nextInfo[1].nextGetInstanceProcAddr
            lookup == Call("xrGetInstanceProcAddr", gipa, <<instance, "xrDestroyInstance">>, r)
        IN IF XR_SUCCEEDED(r)
           THEN /\ calls' = calls \o <<lookup, Call("xrDestroyInstance", gipa, <<instance>>,
                                                     XR_SUCCESS)>>
                /\ destroyed' = destroyed \cup {instance}
           ELSE /\ calls' = Append(calls, lookup)
                /\ UNCHANGED destroyed
    /\ pc' = "exit"
    /\ UNCHANGED <<probed, registry, layerState, apiLayerInfo, instanceCreateInfo, instance, locals,
                   log, lastProbe, reported, created, stateBefore, inits, query>>

\* The tail of the function: the error line and the return.
Exit ==
    /\ pc = "exit"
    /\ log' = IF XR_FAILED(result)
              THEN Append(log, ErrorLog("xrCreateApiLayerInstance failed with", ToCString(result)))
              ELSE log
    /\ pc' = "returned"
    /\ UNCHANGED <<probed, registry, layerState, apiLayerInfo, instanceCreateInfo, instance, locals,
                   calls, lastProbe, reported, created, destroyed, stateBefore, inits, query>>

Init ==
    /\ implicitExtensions \in SeqsUpTo(Names, 2)
    /\ blockedExtensions \in SeqsUpTo(Names, 1)
    /\ advertisedExtensions = <<>>
    /\ layerState = Unattached
    /\ pc = "idle"
    /\ apiLayerInfo = NoInfo
    /\ instanceCreateInfo = NoCreateInfo
    /\ instance = XR_NULL_HANDLE
    /\ info = 1
    /\ availableExtensions = EmptyMap
    /\ filteredImplicitExtensions = <<>>
    /\ chainInstanceCreateInfo = NoCreateInfo
    /\ chainApiLayerInfo = NoChainInfo
    /\ result = XR_SUCCESS
    /\ calls = <<>>
    /\ probed = <<>>
    /\ log = <<>>
    /\ lastProbe = NoProbe
    /\ reported = {}
    /\ created = 0
    /\ destroyed = {}
    /\ stateBefore = Unattached
    /\ inits = <<>>
    /\ query = NoQuery

Next ==
    \/ CreateEnter
    \/ ProbeLayer
    \/ ProbeRuntime
    \/ ProbeThrows
    \/ Negotiate
    \/ Filter
    \/ Forward
    \/ Attach
    \/ LocalInit
    \/ Cleanup
    \/ Exit

Spec == Init /\ [][Next]_vars

\* ---------------------------- xrEnumerateInstanceExtensionProperties
THISLAYER_VERSION == 1
THISLAYER_DESC == "An API layer template"

\* What a call leaves behind: its status, whether and what it wrote through
\* propertyCountOutput, the entries it wrote to properties[0..], the error
\* lines it logged.
Outcome(r, countWritten, count, props) ==
    [result |-> r, countWritten |-> countWritten, count |-> count, properties |-> props,
     log |-> IF XR_FAILED(r) THEN <<ToCString(r)>> ELSE <<>>]

\* The fill loop: one XrExtensionProperties per advertised pair, by index.
FillExtensions(advertised) ==
    [idx \in 1..Len(advertised) |-> <<advertised[idx][1], advertised[idx][2]>>]

\* The body under the try; countPtr and propsPtr say whether
\* propertyCountOutput and properties are non-null.
EnumerateExtensionsAnyName(advertised, layerName, capacity, countPtr, propsPtr) ==
    LET num == Len(advertised)
    IN IF ~countPtr
       THEN Outcome(XR_ERROR_VALIDATION_FAILURE, FALSE, 0, <<>>)
       ELSE IF capacity = 0
       THEN Outcome(XR_SUCCESS, TRUE, num, <<>>)
       ELSE IF propsPtr
       THEN IF capacity < num
            THEN Outcome(XR_ERROR_SIZE_INSUFFICIENT, FALSE, 0, <<>>)
            ELSE Outcome(XR_SUCCESS, TRUE, num, FillExtensions(advertised))
       ELSE Outcome(XR_ERROR_VALIDATION_FAILURE, FALSE, 0, <<>>)

EnumerateExtensionsPartialFill(advertised, layerName, capacity, countPtr, propsPtr) ==
    LET num == Len(advertised)
    IN IF ~countPtr \/ layerName = NullStr \/ layerName # LAYER_NAME
       THEN Outcome(XR_ERROR_VALIDATION_FAILURE, FALSE, 0, <<>>)
       ELSE IF capacity = 0
       THEN Outcome(XR_SUCCESS, TRUE, num, <<>>)
       ELSE IF propsPtr
       THEN IF capacity < num
            THEN Outcome(XR_ERROR_SIZE_INSUFFICIENT, FALSE, 0,
                         SubSeq(FillExtensions(advertised), 1, capacity))
            ELSE Outcome(XR_SUCCESS, TRUE, num, FillExtensions(advertised))
       ELSE Outcome(XR_ERROR_VALIDATION_FAILURE, FALSE, 0, <<>>)

EnumerateExtensions(advertised, layerName, capacity, countPtr, propsPtr) ==
    LET num == Len(advertised)
    IN IF ~countPtr \/ layerName = NullStr \/ layerName # LAYER_NAME
       THEN Outcome(XR_ERROR_VALIDATION_FAILURE, FALSE, 0, <<>>)
       ELSE IF capacity = 0
       THEN Outcome(XR_SUCCESS, TRUE, num, <<>>)
       ELSE IF propsPtr
       THEN IF capacity < num
            THEN Outcome(XR_ERROR_SIZE_INSUFFICIENT, FALSE, 0, <<>>)
            ELSE Outcome(XR_SUCCESS, TRUE, num, FillExtensions(advertised))
       ELSE Outcome(XR_ERROR_VALIDATION_FAILURE, FALSE, 0, <<>>)

\* ------------------------------------- xrEnumerateApiLayerProperties
\* The one XrApiLayerProperties written.
LayerProp ==
    [layerName |-> LAYER_NAME, description |-> THISLAYER_DESC,
     layerVersion |-> THISLAYER_VERSION]

\* The size-insufficient branch returns at once, past the error line at the
\* end of the function.
EnumerateLayers(capacity, countPtr, propsPtr) ==
    LET num_layer_properties == 1
    IN IF ~countPtr
       THEN Outcome(XR_ERROR_VALIDATION_FAILURE, FALSE, 0, <<>>)
       ELSE IF capacity = 0
       THEN Outcome(XR_SUCCESS, TRUE, num_layer_properties, <<>>)
       ELSE IF propsPtr
       THEN IF capacity < num_layer_properties
            THEN [Outcome(XR_ERROR_SIZE_INSUFFICIENT, FALSE, 0, <<>>) EXCEPT !.log = <<>>]
            ELSE Outcome(XR_SUCCESS, TRUE, num_layer_properties, <<LayerProp>>)
       ELSE Outcome(XR_ERROR_VALIDATION_FAILURE, FALSE, 0, <<>>)

\* ------------------------------------------------ xrGetInstanceProcAddr
\* What the per-instance dispatcher, GetInstance()->xrGetInstanceProcAddr,
\* may do when it is consulted: return a status, with the function it
\* resolved, or throw a std::exception.
DispatcherOutcomes ==
    { [throws |-> FALSE, result |-> XR_SUCCESS, function |-> "dispatcher"],
      [throws |-> FALSE, result |-> XR_ERROR_FUNCTION_UNSUPPORTED, function |-> "unset"],
      [throws |-> TRUE, result |-> XR_SUCCESS, function |-> "unset"] }

Routed(r, function, consulted, lines) ==
    [result |-> r, function |-> function, dispatcher |-> consulted, log |-> lines]

\* The router, given what the dispatcher would do.
RouterDispatcherFirst(inst, name, d) ==
    IF inst # XR_NULL_HANDLE /\ name # NullStr
    THEN IF d.throws
         THEN Routed(XR_ERROR_RUNTIME_FAILURE, "unset", 1, <<"xrGetInstanceProcAddr: exc.what()">>)
         ELSE Routed(d.result, d.function, 1, <<>>)
    ELSE IF name # NullStr /\ name = "xrEnumerateInstanceExtensionProperties"
    THEN Routed(XR_SUCCESS, "openxr_api_layer::xrEnumerateInstanceExtensionProperties", 0, <<>>)
    ELSE IF name # NullStr /\ name = "xrEnumerateApiLayerProperties"
    THEN Routed(XR_SUCCESS, "openxr_api_layer::xrEnumerateApiLayerProperties", 0, <<>>)
    ELSE Routed(XR_ERROR_FUNCTION_UNSUPPORTED, "unset", 0, <<>>)

Router(inst, name, d) ==
    IF name # NullStr /\ name = "xrEnumerateInstanceExtensionProperties"
    THEN Routed(XR_SUCCESS, "openxr_api_layer::xrEnumerateInstanceExtensionProperties", 0, <<>>)
    ELSE IF name # NullStr /\ name = "xrEnumerateApiLayerProperties"
    THEN Routed(XR_SUCCESS, "openxr_api_layer::xrEnumerateApiLayerProperties", 0, <<>>)
    ELSE IF inst # XR_NULL_HANDLE /\ name # NullStr
    THEN IF d.throws
         THEN Routed(XR_ERROR_RUNTIME_FAILURE, "unset", 1, <<"xrGetInstanceProcAddr: exc.what()">>)
         ELSE Routed(d.result, d.function, 1, <<>>)
    ELSE Routed(XR_ERROR_FUNCTION_UNSUPPORTED, "unset", 0, <<>>)

\* ----------------------------------------------- the calls of SpecQuery
LayerNames == {NullStr, LAYER_NAME, OtherLayer(1)}
Capacities == 0..(MaxAdvertised + 1)
FunctionNames ==
    {NullStr, "", "xrEnumerateInstanceExtensionProperties",
     "xrEnumerateApiLayerProperties", "xrCreateSession"}
InstanceHandles == {XR_NULL_HANDLE, 1}

frame == <<layerState, pc, apiLayerInfo, instanceCreateInfo, instance, locals, calls, probed,
           log, lastProbe, reported, created, destroyed, stateBefore, inits>>

CallEnumerateInstanceExtensionProperties ==
    /\ \E layerName \in LayerNames, capacity \in Capacities, countPtr, propsPtr \in BOOLEAN :
        query' = [fn |-> "xrEnumerateInstanceExtensionProperties",
                  layerName |-> layerName, capacity |-> capacity,
                  countPtr |-> countPtr, propsPtr |-> propsPtr,
                  out |-> EnumerateExtensions(advertisedExtensions, layerName, capacity,
                                              countPtr, propsPtr)]
    /\ UNCHANGED <<registry, frame>>

CallEnumerateApiLayerProperties ==
    /\ \E capacity \in Capacities, countPtr, propsPtr \in BOOLEAN :
        query' = [fn |-> "xrEnumerateApiLayerProperties",
                  capacity |-> capacity, countPtr |-> countPtr, propsPtr |-> propsPtr,
                  out |-> EnumerateLayers(capacity, countPtr, propsPtr)]
    /\ UNCHANGED <<registry, frame>>

CallGetInstanceProcAddr ==
    /\ \E inst \in InstanceHandles, name \in FunctionNames, d \in DispatcherOutcomes :
        query' = [fn |-> "xrGetInstanceProcAddr", instance |-> inst, name |-> name,
                  dispatcher |-> d, out |-> Router(inst, name, d)]
    /\ UNCHANGED <<registry, frame>>

InitQuery ==
    /\ implicitExtensions = <<>>
    /\ blockedExtensions = <<>>
    /\ advertisedExtensions \in SeqsUpTo(Entry, MaxAdvertised)
    /\ layerState = Unattached
    /\ pc = "idle"
    /\ apiLayerInfo = NoInfo
    /\ instanceCreateInfo = NoCreateInfo
    /\ instance = XR_NULL_HANDLE
    /\ info = 1
    /\ availableExtensions = EmptyMap
    /\ filteredImplicitExtensions = <<>>
    /\ chainInstanceCreateInfo = NoCreateInfo
    /\ chainApiLayerInfo = NoChainInfo
    /\ result = XR_SUCCESS
    /\ calls = <<>>
    /\ probed = <<>>
    /\ log = <<>>
    /\ lastProbe = NoProbe
    /\ reported = {}
    /\ created = 0
    /\ destroyed = {}
    /\ stateBefore = Unattached
    /\ inits = <<>>
    /\ query = NoQuery

NextQuery ==
    \/ CallEnumerateInstanceExtensionProperties
    \/ CallEnumerateApiLayerProperties
    \/ CallGetInstanceProcAddr

SpecQuery == InitQuery /\ [][NextQuery]_vars

\* ======================================================== the claims
WellFormed == apiLayerInfo \in {ValidInfo(n) : n \in 1..(MaxLayers + 1)}
Returned == pc = "returned"
CreateCalls == SelectSeq(calls, LAMBDA c : c.fn = "nextCreateApiLayerInstance")
DestroyLookups ==
    SelectSeq(calls, LAMBDA c : c.fn = "xrGetInstanceProcAddr" /\ c.args[2] = "xrDestroyInstance")
DestroyCalls == SelectSeq(calls, LAMBDA c : c.fn = "xrDestroyInstance")
AllImplicitReported == Range(implicitExtensions) \subseteq reported
Count(n, s) == Cardinality({i \in 1..Len(s) : s[i] = n})
InitFailed == \E i \in 1..Len(inits) : inits[i].throws \/ XR_FAILED(inits[i].result)

\* C1 as stated: for a well-formed envelope the call returns a non-failure
\* status exactly when every name of implicitExtensions is among the names
\* the downstream links reported.
C1_Original ==
    (Returned /\ WellFormed) => (XR_SUCCEEDED(result) <=> AllImplicitReported)

\* C1 amended: for a well-formed envelope a non-failure status is returned
\* only if every name of implicitExtensions was reported by some downstream
\* link; and when every name was reported the next link's create entry point
\* is called once and the call returns a non-failure status exactly when
\* that call did and this layer's own xrCreateInstance, if run, did not fail.
C1_Amended ==
    (Returned /\ WellFormed) =>
        /\ XR_SUCCEEDED(result) => AllImplicitReported
        /\ AllImplicitReported =>
            /\ Len(CreateCalls) = 1
            /\ XR_SUCCEEDED(result) <=> (XR_SUCCEEDED(CreateCalls[1].ret) /\ ~InitFailed)

\* Two distinct implicit names, each reported by a different link, and the
\* call succeeded.
C1_Witness ==
    /\ Returned /\ WellFormed /\ result = XR_SUCCESS
    /\ Cardinality(Range(implicitExtensions)) = 2
    /\ Len(probed) = 2
    /\ Len(inits) = 1

\* C2: a malformed envelope makes the call return
\* XR_ERROR_INITIALIZATION_FAILED with no downstream call of any kind, no
\* probe, no run of this layer's xrCreateInstance, the layer object as it
\* was, and one log line, an error line.
C2_ValidationFailure ==
    (Returned /\ ~WellFormed) =>
        /\ result = XR_ERROR_INITIALIZATION_FAILED
        /\ calls = <<>> /\ probed = <<>> /\ lastProbe.calls = <<>>
        /\ inits = <<>> /\ destroyed = {}
        /\ layerState = stateBefore
        /\ Len(log) = 1 /\ Len(ErrorLines(log)) = 1

\* The head node names another layer.
C2_Witness ==
    /\ Returned /\ ~apiLayerInfo.null /\ apiLayerInfo.nextInfo # <<>>
    /\ apiLayerInfo.nextInfo[1].layerName = OtherLayer(1)
    /\ result = XR_ERROR_INITIALIZATION_FAILED

\* The first position of implicitExtensions whose name no link reported.
FirstMissing ==
    CHOOSE i \in 1..Len(implicitExtensions) :
        /\ implicitExtensions[i] \notin reported
        /\ \A j \in 1..(i - 1) : implicitExtensions[j] \in reported

\* C3: with a well-formed envelope and some implicit name that no link
\* reported, the call returns XR_ERROR_EXTENSION_NOT_PRESENT at the first
\* such name (the names before it were accepted, that name is the one
\* logged), the next link's create entry point is not called and the layer
\* object is as it was.
C3_MissingImplicit ==
    (Returned /\ WellFormed /\ ~AllImplicitReported) =>
        /\ result = XR_ERROR_EXTENSION_NOT_PRESENT
        /\ filteredImplicitExtensions = SubSeq(implicitExtensions, 1, FirstMissing - 1)
        /\ log[Len(log)] = Log("Cannot satisfy implicit extension request",
                               implicitExtensions[FirstMissing])
        /\ calls = <<>> /\ inits = <<>>
        /\ layerState = stateBefore

\* Both implicit names are missing and they differ: the first is the one
\* reported.
C3_Witness ==
    /\ Returned /\ WellFormed /\ Len(implicitExtensions) = 2
    /\ implicitExtensions[1] # implicitExtensions[2]
    /\ reported = {}
    /\ Len(probed) = 2
    /\ result = XR_ERROR_EXTENSION_NOT_PRESENT

\* The caller's list and the list the next link received.
Requested == instanceCreateInfo.enabledExtensionNames
Forwarded(c) == c.args[1].enabledExtensionNames
Unblocked == SelectSeq(Requested, LAMBDA n : n \notin Range(blockedExtensions))
RequestedAndBlocked == Range(Requested) \cap Range(blockedExtensions)

\* C4 as stated: a name that is both requested and blocked is never in the
\* list the next link receives.
C4_Original ==
    \A k \in 1..Len(CreateCalls) :
        \A n \in RequestedAndBlocked : n \notin Range(Forwarded(CreateCalls[k]))

\* C4 amended: a name that is both requested and blocked is in the list the
\* next link receives only when it is also one of implicitExtensions, and
\* then only as often as implicitExtensions holds it.
C4_Amended ==
    \A k \in 1..Len(CreateCalls) :
        \A n \in RequestedAndBlocked :
            Count(n, Forwarded(CreateCalls[k])) = Count(n, implicitExtensions)

\* A requested and blocked name that is not implicit, next to a requested
\* name that passes.
C4_Witness ==
    /\ Len(CreateCalls) = 1
    /\ \E n \in RequestedAndBlocked : n \notin Range(implicitExtensions)
    /\ Unblocked # <<>>
    /\ Forwarded(CreateCalls[1]) # <<>>

\* C5 as stated: every forwarded name is an unblocked requested name or an
\* implicit name, and a name that is both is forwarded once.
C5_Original ==
    \A k \in 1..Len(CreateCalls) :
        /\ Range(Forwarded(CreateCalls[k]))
              \subseteq Range(Unblocked) \cup Range(filteredImplicitExtensions)
        /\ \A n \in Range(Unblocked) \cap Range(filteredImplicitExtensions) :
              Count(n, Forwarded(CreateCalls[k])) = 1

\* C5 amended: every forwarded name is an unblocked requested name or an
\* implicit name, and each name is forwarded as often as the unblocked
\* request holds it plus as often as the implicit list holds it: a name in
\* both lists is forwarded from both, without being combined.
C5_Amended ==
    \A k \in 1..Len(CreateCalls) :
        /\ Range(Forwarded(CreateCalls[k]))
              \subseteq Range(Unblocked) \cup Range(filteredImplicitExtensions)
        /\ \A n \in Names :
              Count(n, Forwarded(CreateCalls[k]))
                  = Count(n, Unblocked) + Count(n, filteredImplicitExtensions)

\* A name both requested, unblocked, and implicit reached the next link.
C5_Witness ==
    /\ Len(CreateCalls) = 1
    /\ Range(Unblocked) \cap Range(filteredImplicitExtensions) # {}
    /\ Len(Forwarded(CreateCalls[1])) >= 2

ThrewInInit == \E i \in 1..Len(inits) : inits[i].throws

\* C6: when the next link created the instance and this layer's own
\* xrCreateInstance then threw, the call returns XR_ERROR_RUNTIME_FAILURE
\* having looked xrDestroyInstance up exactly once, after the create call
\* and for the handle it produced, and having called it exactly once on that
\* handle when the lookup succeeded and not at all when it failed.
C6_Rollback ==
    (Returned /\ ThrewInInit) =>
        /\ result = XR_ERROR_RUNTIME_FAILURE
        /\ Len(CreateCalls) = 1 /\ CreateCalls[1].ret = XR_SUCCESS
        /\ calls[1] = CreateCalls[1]
        /\ Len(DestroyLookups) = 1
        /\ DestroyLookups[1].args[1] = instance
        /\ DestroyLookups[1].via = apiLayerInfo.nextInfo[1].nextGetInstanceProcAddr
        /\ instance = created /\ instance # XR_NULL_HANDLE
        /\ IF XR_SUCCEEDED(DestroyLookups[1].ret)
           THEN /\ Len(DestroyCalls) = 1
                /\ DestroyCalls[1].args = <<instance>>
                /\ destroyed = {instance}
           ELSE /\ DestroyCalls = <<>>
                /\ destroyed = {}

\* The throw followed by a lookup that failed.
C6_Witness ==
    /\ Returned /\ ThrewInInit
    /\ Len(DestroyLookups) = 1 /\ XR_FAILED(DestroyLookups[1].ret)
    /\ result = XR_ERROR_RUNTIME_FAILURE

\* C7: when the next link's create entry point returned a failure status,
\* that status is the status of the call, nothing is looked up or destroyed,
\* the layer object is as it was and this layer's own xrCreateInstance does
\* not run.
C7_DownstreamFailure ==
    \A k \in 1..Len(CreateCalls) :
        XR_FAILED(CreateCalls[k].ret) =>
            /\ result = CreateCalls[k].ret
            /\ Len(calls) = 1
            /\ DestroyLookups = <<>> /\ DestroyCalls = <<>> /\ destroyed = {}
            /\ layerState = stateBefore
            /\ inits = <<>>
            /\ pc \in {"exit", "returned"}

\* The next link refused and the call has returned.
C7_Witness ==
    /\ Returned /\ Len(CreateCalls) = 1
    /\ CreateCalls[1].ret = XR_ERROR_API_VERSION_UNSUPPORTED
    /\ result = XR_ERROR_API_VERSION_UNSUPPORTED

\* ------------------------------------------- the claims on SpecQuery
IsRouted == query.fn = "xrGetInstanceProcAddr"
IsEnumExt == query.fn = "xrEnumerateInstanceExtensionProperties"
IsEnumLayers == query.fn = "xrEnumerateApiLayerProperties"
OwnEnumerations ==
    {"xrEnumerateInstanceExtensionProperties", "xrEnumerateApiLayerProperties"}

\* The first rule of the router, common to C8 as stated and as amended: the
\* two enumeration names resolve to this layer's own functions for every
\* handle, the dispatcher not being consulted.
OwnFirst ==
    (IsRouted /\ query.name \in OwnEnumerations) =>
        /\ query.out.result = XR_SUCCESS
        /\ query.out.function = "openxr_api_layer::" \o query.name
        /\ query.out.dispatcher = 0

\* The call is handed to the dispatcher and its answer is the answer.
Delegated ==
    /\ query.out.dispatcher = 1
    /\ ~query.dispatcher.throws =>
        /\ query.out.result = query.dispatcher.result
        /\ query.out.function = query.dispatcher.function

Unsupported ==
    /\ query.out.result = XR_ERROR_FUNCTION_UNSUPPORTED
    /\ query.out.dispatcher = 0

\* C8 as stated: own enumerations first; otherwise the dispatcher when the
\* handle is present and the name is non-empty; otherwise, for a null handle
\* or a null or empty name, XR_ERROR_FUNCTION_UNSUPPORTED without the
\* dispatcher.
C8_Original ==
    /\ OwnFirst
    /\ (IsRouted /\ query.name \notin OwnEnumerations) =>
        IF query.instance # XR_NULL_HANDLE /\ query.name \notin {NullStr, ""}
        THEN Delegated
        ELSE Unsupported

\* C8 amended: own enumerations first; otherwise the dispatcher when the
\* handle is present and the name is non-null, the empty name included;
\* otherwise, for a null handle or a null name,
\* XR_ERROR_FUNCTION_UNSUPPORTED without the dispatcher.
C8_Amended ==
    /\ OwnFirst
    /\ (IsRouted /\ query.name \notin OwnEnumerations) =>
        IF query.instance # XR_NULL_HANDLE /\ query.name # NullStr
        THEN Delegated
        ELSE Unsupported

\* An empty name with a handle went to the dispatcher.
C8_Witness ==
    /\ IsRouted /\ query.name = "" /\ query.instance # XR_NULL_HANDLE
    /\ query.out.dispatcher = 1
    /\ query.out.result = XR_SUCCESS

\* A call of either enumeration with arguments in order: a count pointer, a
\* buffer, and for the extensions the layer's own name.
EnumInOrder ==
    /\ IsEnumExt \/ IsEnumLayers
    /\ query.countPtr /\ query.propsPtr
    /\ IsEnumExt => query.layerName = LAYER_NAME

\* The count the enumeration has to report.
Needed == IF IsEnumExt THEN Len(advertisedExtensions) ELSE 1

Filled ==
    /\ query.out.result = XR_SUCCESS
    /\ Len(query.out.properties) = Needed
    /\ query.out.countWritten /\ query.out.count = Needed

Insufficient ==
    /\ query.out.result = XR_ERROR_SIZE_INSUFFICIENT
    /\ ~query.out.countWritten
    /\ query.out.properties = <<>>

CountOnly ==
    /\ query.out.result = XR_SUCCESS
    /\ query.out.countWritten /\ query.out.count = Needed
    /\ query.out.properties = <<>>

\* C9 as stated: with N >= 1 entries needed, capacity N fills N entries and
\* reports N, and capacity N-1 returns XR_ERROR_SIZE_INSUFFICIENT writing
\* nothing.
C9_Original ==
    (EnumInOrder /\ Needed >= 1) =>
        /\ query.capacity = Needed => Filled
        /\ query.capacity = Needed - 1 => Insufficient

\* C9 amended: with N >= 1 entries needed, capacity N fills N entries and
\* reports N; capacity N-1 returns XR_ERROR_SIZE_INSUFFICIENT writing
\* nothing when N-1 >= 1, and when N = 1, as always for
\* xrEnumerateApiLayerProperties, capacity 0 is the count query: success,
\* the count written, no entry.
C9_Amended ==
    (EnumInOrder /\ Needed >= 1) =>
        /\ query.capacity = Needed => Filled
        /\ (query.capacity = Needed - 1 /\ Needed - 1 >= 1) => Insufficient
        /\ (query.capacity = Needed - 1 /\ Needed = 1) => CountOnly

\* Two entries advertised, room for one.
C9_Witness ==
    /\ IsEnumExt /\ EnumInOrder
    /\ Len(advertisedExtensions) = 2 /\ query.capacity = 1
    /\ query.out.result = XR_ERROR_SIZE_INSUFFICIENT

NothingWritten == ~query.out.countWritten /\ query.out.properties = <<>>

\* The first part of C10, common to the statement and the amendment: a null
\* or foreign layer name gives XR_ERROR_VALIDATION_FAILURE, nothing written.
ForeignName ==
    (IsEnumExt /\ query.layerName # LAYER_NAME) =>
        /\ query.out.result = XR_ERROR_VALIDATION_FAILURE
        /\ NothingWritten

\* C10 as stated, for every filter and capacity, propertyCountOutput being
\* non-null and the buffer being whatever it is.
C10_Original ==
    /\ ForeignName
    /\ (IsEnumExt /\ query.layerName = LAYER_NAME /\ query.countPtr) =>
        /\ query.capacity = 0 => CountOnly
        /\ (query.capacity > 0 /\ query.capacity < Len(advertisedExtensions)) =>
              (query.out.result = XR_ERROR_SIZE_INSUFFICIENT /\ query.out.properties = <<>>)

\* C10 amended, as a state predicate: with propertyCountOutput non-null, the
\* same, the size-insufficient status being that of a capacity above 0 and
\* below the count with a non-null buffer; a capacity above 0 with a null
\* buffer, or a null propertyCountOutput, gives XR_ERROR_VALIDATION_FAILURE
\* with nothing written.
C10_State ==
    /\ ForeignName
    /\ (IsEnumExt /\ query.layerName = LAYER_NAME) =>
        /\ (query.countPtr /\ query.capacity = 0) => CountOnly
        /\ (query.countPtr /\ query.propsPtr /\ query.capacity > 0
                /\ query.capacity < Len(advertisedExtensions)) =>
              (query.out.result = XR_ERROR_SIZE_INSUFFICIENT /\ NothingWritten)
        /\ (~query.countPtr \/ (query.capacity > 0 /\ ~query.propsPtr)) =>
              (query.out.result = XR_ERROR_VALIDATION_FAILURE /\ NothingWritten)

\* Two count queries in a row.
CountQuery(q) ==
    /\ q.fn = "xrEnumerateInstanceExtensionProperties"
    /\ q.layerName = LAYER_NAME /\ q.countPtr /\ q.capacity = 0

\* C10 amended: the state predicate in every state, and a count query that
\* follows a count query reports the same count.
C10_Amended ==
    /\ []C10_State
    /\ [][(CountQuery(query) /\ CountQuery(query')) =>
              (query'.out.countWritten /\ query'.out.count = query.out.count)]_vars

\* A count query on a table of two entries.
C10_Witness ==
    /\ CountQuery(query) /\ Len(advertisedExtensions) = 2
    /\ query.out.result = XR_SUCCESS /\ query.out.count = 2
\* ------------------------------------------------ faults and log lines
\* An exception has left xrCreateApiLayerInstance.
Escaped == pc = "escaped"

\* C11, for xrCreateApiLayerInstance: a fault raised at a step of the call,
\* in the probing of a link as much as in this layer's own xrCreateInstance,
\* never leaves the entry point, and a call in which one was raised returns
\* XR_ERROR_RUNTIME_FAILURE.
C11_FaultsCaught ==
    /\ ~Escaped
    /\ (Returned /\ ThrewInInit) => result = XR_ERROR_RUNTIME_FAILURE
\* An error-level line of xrCreateApiLayerInstance about the failure of this
\* call: the line of the validation branch, read as naming its status, or
\* the closing line with the status returned.
FailureLine(e) ==
    \/ e = ErrorLog("xrCreateApiLayerInstance validation failed", "")
    \/ e = ErrorLog("xrCreateApiLayerInstance failed with", ToCString(result))

\* C12, for xrCreateApiLayerInstance: a call that has returned a failure
\* status has written, before returning, an error log line that names the
\* entry point and the status.
C12_FailureLogged ==
    (Returned /\ XR_FAILED(result)) => \E i \in 1..Len(log) : FailureLine(log[i])
\* ------------------------------------------------ the order of the steps
\* The part of a forwarded list that follows the caller's unblocked names.
ImplicitPart(names) == SubSeq(names, Len(Unblocked) + 1, Len(names))

\* A step that probes a link, a step that builds the forwarded list, a step
\* that calls the next link's create entry point.
ProbeStep == Len(probed') > Len(probed)
FilterStep == chainInstanceCreateInfo' # chainInstanceCreateInfo /\ pc' = "forward"
CreateStep == Len(CreateCalls') > Len(CreateCalls)

\* In a call that negotiates, every link below has been probed: as many
\* probes as the envelope has nodes.
ProbingDone == implicitExtensions # <<>> => Len(probed) = Len(apiLayerInfo.nextInfo)

\* C13, the steps: a probe happens while the request is unfiltered and the
\* create entry point uncalled; the filtering happens after the last probe,
\* the create entry point still uncalled; the create call happens after the
\* filtering, on the list it built, no create call having been made in this
\* call; and once computed the negotiated list stays as it is to the end of
\* the call.
C13_Steps ==
    /\ ProbeStep =>
        /\ chainInstanceCreateInfo' = NoCreateInfo /\ instanceCreateInfo' = NoCreateInfo
        /\ calls' = <<>>
    /\ FilterStep =>
        /\ ProbingDone /\ probed' = probed
        /\ calls' = <<>>
    /\ CreateStep =>
        /\ CreateCalls = <<>> /\ Len(CreateCalls') = 1
        /\ ProbingDone /\ probed' = probed
        /\ chainInstanceCreateInfo # NoCreateInfo
        /\ chainInstanceCreateInfo' = chainInstanceCreateInfo
        /\ CreateCalls'[1].args[1] = chainInstanceCreateInfo
    /\ pc \in {"filter", "forward", "attach", "init", "cleanup", "exit"} =>
        filteredImplicitExtensions' = filteredImplicitExtensions

\* C13, the states: at most one create call per call of
\* xrCreateApiLayerInstance, and the implicit names it received are the list
\* the negotiation computed, every name of which a probed link reported.
C13_Received ==
    /\ Len(CreateCalls) <= 1
    /\ \A k \in 1..Len(CreateCalls) :
        /\ ImplicitPart(Forwarded(CreateCalls[k])) = filteredImplicitExtensions
        /\ filteredImplicitExtensions = implicitExtensions
        /\ Range(filteredImplicitExtensions) \subseteq reported

\* C13: probing before filtering before the create call, one create call at
\* most, receiving the negotiated implicit names.
C13_Ordering == []C13_Received /\ [][C13_Steps]_vars

\* Two links probed, then a request with names filtered, then the create
\* call, which received a negotiated name.
C13_Witness ==
    /\ Len(CreateCalls) = 1 /\ Len(probed) = 2
    /\ Requested # <<>>
    /\ filteredImplicitExtensions # <<>>
    /\ ImplicitPart(Forwarded(CreateCalls[1])) = filteredImplicitExtensions
\* ------------------------------------------------------ a failed probe
\* One of the calls of the probe returned a failure status: the lookup, the
\* capacity-0 call or the fill call.
ProbeFailed(p) == \E i \in 1..Len(p.calls) : XR_FAILED(p.calls[i].ret)

\* C14: a probe whose lookup, count call or fill call failed adds no entry
\* to availableExtensions, the entries already there staying as they are,
\* and the call goes on to the next link or to the negotiation.
C14_FailedProbe ==
    [][(ProbeStep /\ ProbeFailed(lastProbe')) =>
          /\ availableExtensions' = availableExtensions
          /\ pc' \in {"probe", "negotiate"}]_vars
\* ------------------------------------------------- the links and the map
\* The probes of a chain of n nodes in chain order: the layer of node k + 1
\* by its name through the accessor of node k, then the runtime, with a null
\* name, through the accessor of the last node.
ChainOrder(nodes) ==
    [k \in 1..Len(nodes) |->
        IF k < Len(nodes)
        THEN <<nodes[k + 1].layerName, nodes[k].nextGetInstanceProcAddr>>
        ELSE <<NullStr, nodes[k].nextGetInstanceProcAddr>>]

\* The entries a probed link advertised: those its fill call wrote, none
\* when one of its calls failed.
Advertised(p) == IF ProbeFailed(p) THEN <<>> ELSE p.entries
AdvertisedNames(p) == {Advertised(p)[i][1] : i \in 1..Len(Advertised(p))}
FirstVersion(p, n) ==
    LET first == CHOOSE i \in 1..Len(Advertised(p)) :
                     /\ Advertised(p)[i][1] = n
                     /\ \A j \in 1..(i - 1) : Advertised(p)[j][1] # n
    IN Advertised(p)[first][2]

\* One probe: the keys grow by the names the link advertised, a name already
\* held keeps its version, a new name takes the version the link gave it.
FirstSeenWins ==
    ProbeStep =>
        /\ DOMAIN availableExtensions'
              = DOMAIN availableExtensions \cup AdvertisedNames(lastProbe')
        /\ \A n \in DOMAIN availableExtensions :
              availableExtensions'[n] = availableExtensions[n]
        /\ \A n \in AdvertisedNames(lastProbe') \ DOMAIN availableExtensions :
              availableExtensions'[n] = FirstVersion(lastProbe', n)

\* When the negotiation loop starts every link has been probed once, in
\* chain order, and the keys of the map are the names the links advertised.
ProbedInOrder ==
    pc = "negotiate" =>
        /\ probed = ChainOrder(apiLayerInfo.nextInfo)
        /\ DOMAIN availableExtensions = reported

\* C15: every link after this layer is probed once, in chain order, the
\* runtime last; the keys of availableExtensions are the union of the names
\* the links advertised; a name advertised by several links keeps the
\* version of the first of them.
C15_FirstSeen == []ProbedInOrder /\ [][FirstSeenWins]_vars
\* ------------------------------------------------- the forwarded request
\* C16: the list the next link's create entry point receives is the
\* caller's requested names without the blocked ones, in the caller's order
\* and with its duplicates, followed by implicitExtensions in its order; the
\* count it receives is the length of that list.
C16_ForwardedList ==
    \A k \in 1..Len(CreateCalls) :
        /\ Forwarded(CreateCalls[k]) = Unblocked \o implicitExtensions
        /\ CreateCalls[k].args[1].enabledExtensionCount
              = Len(Unblocked) + Len(implicitExtensions)

\* A request that names one extension twice, an implicit list, and the three
\* names forwarded.
C16_Witness ==
    /\ Len(CreateCalls) = 1
    /\ Len(Requested) = 2 /\ Requested[1] = Requested[2]
    /\ Len(implicitExtensions) = 1
    /\ Len(Forwarded(CreateCalls[1])) = 3
\* ------------------------------------------------ the caller's structures
\* A step inside a call of xrCreateApiLayerInstance.
InCall == pc \notin {"idle", "returned", "escaped"}

\* C17, the steps: no step of a call changes the caller's apiLayerInfo, a
\* node of its list, or the caller's instanceCreateInfo.
C17_Untouched ==
    InCall =>
        /\ apiLayerInfo' = apiLayerInfo
        /\ instanceCreateInfo # NoCreateInfo => instanceCreateInfo' = instanceCreateInfo

\* C17, the copies: the create info the next link received differs from the
\* caller's in the extension list and count alone; the layer info it
\* received differs from the caller's in nextInfo alone, which is the
\* caller's list from its second node on, the nodes as the caller gave them.
C17_Copies ==
    \A k \in 1..Len(CreateCalls) :
        LET ci == CreateCalls[k].args[1]
            li == CreateCalls[k].args[2]
        IN /\ DOMAIN ci = DOMAIN instanceCreateInfo
           /\ \A f \in DOMAIN ci \ {"enabledExtensionNames", "enabledExtensionCount"} :
                 ci[f] = instanceCreateInfo[f]
           /\ DOMAIN li = DOMAIN apiLayerInfo
           /\ \A f \in DOMAIN li \ {"nextInfo"} : li[f] = apiLayerInfo[f]
           /\ Len(li.nextInfo) = Len(apiLayerInfo.nextInfo) - 1
           /\ \A j \in 1..Len(li.nextInfo) : li.nextInfo[j] = apiLayerInfo.nextInfo[j + 1]
           /\ WellFormed

\* C17: the caller's structures are never modified and the next link
\* receives copies, changed in the extension list and count and in the
\* chain pointer, advanced by one link.
C17_CallerUntouched == []C17_Copies /\ [][C17_Untouched]_vars

\* A chain with a layer below, a request from which a name was filtered, and
\* the call returned after the next link was called.
C17_Witness ==
    /\ Returned /\ Len(CreateCalls) = 1
    /\ Len(apiLayerInfo.nextInfo) = 2
    /\ Len(CreateCalls[1].args[2].nextInfo) = 1
    /\ Forwarded(CreateCalls[1]) # Requested
\* ------------------------------------------------------------ the attach
\* The layer object as this call attaches it: the accessor of the head node,
\* the handle the next link produced, the negotiated list.
AttachedHere ==
    [getInstanceProcAddr |-> apiLayerInfo.nextInfo[1].nextGetInstanceProcAddr,
     instance |-> instance,
     grantedExtensions |-> filteredImplicitExtensions]

\* The next link's create entry point has been called in this call and has
\* returned XR_SUCCESS with a handle.
CreateSucceeded ==
    /\ Len(CreateCalls) = 1 /\ CreateCalls[1].ret = XR_SUCCESS
    /\ instance # XR_NULL_HANDLE

\* C18, the steps: the layer object changes only after the create call has
\* succeeded and before this layer's own xrCreateInstance has run, to the
\* accessor, the handle and the negotiated list of this call; and when this
\* layer's own xrCreateInstance runs the layer object is so attached.
C18_Steps ==
    /\ layerState' # layerState =>
        /\ CreateSucceeded /\ inits = <<>>
        /\ calls' = calls /\ filteredImplicitExtensions' = filteredImplicitExtensions
        /\ layerState' = AttachedHere
    /\ Len(inits') > Len(inits) =>
        /\ CreateSucceeded
        /\ layerState = AttachedHere /\ layerState' = layerState
        /\ inits = <<>>

\* C18, the states: a layer object that is not as it was at entry is the one
\* this call attached, with the negotiated implicit list of this call as its
\* granted list, the create call having succeeded.
C18_Attached ==
    layerState # stateBefore =>
        /\ CreateSucceeded
        /\ layerState = AttachedHere
        /\ layerState.grantedExtensions = implicitExtensions

\* C18: attached only after the next link's create call succeeded, always
\* before this layer's own xrCreateInstance runs, with the negotiated list.
C18_AttachOrder == []C18_Attached /\ [][C18_Steps]_vars

\* A layer below, a negotiated name, and this layer's own xrCreateInstance
\* has run on the attached layer object.
C18_Witness ==
    /\ Len(inits) = 1 /\ Len(apiLayerInfo.nextInfo) = 2
    /\ layerState = AttachedHere
    /\ layerState.grantedExtensions # <<>>
    /\ layerState.getInstanceProcAddr = 1
\* --------------------------------------------- the outcome and the attach
\* C19: when the call has returned a failure status the layer object is as
\* it was at entry, and does not hold a handle this call had destroyed.
C19_FailureRestores ==
    (Returned /\ XR_FAILED(result)) =>
        /\ layerState = stateBefore
        /\ layerState.instance \notin destroyed
\* C20: when the call has returned a non-failure status, XR_SUCCESS or a
\* positive code, the layer object is attached to the handle the next link
\* produced and this layer's own xrCreateInstance has run without failing.
C20_SuccessAttached ==
    (Returned /\ XR_SUCCEEDED(result)) =>
        /\ instance # XR_NULL_HANDLE
        /\ layerState = AttachedHere
        /\ Len(inits) = 1 /\ ~InitFailed
====
